---- MODULE Spec2Model ----
(***************************************************************************)
(* aws-s3-security-guard: the S3 public-access scanner (src/scanner.py)    *)
(* and the remediation engine (src/remediate.py) as state machines.        *)
(*                                                                         *)
(* Python dicts are functions with a string domain (a missing key is a     *)
(* string outside the DOMAIN), lists are sequences, and dict.get is Get.   *)
(* The S3 provider is the environment: each call returns or raises one of  *)
(* the outcomes enumerated below.                                          *)
(***************************************************************************)
EXTENDS Integers, Sequences, FiniteSets, TLC

VARIABLES
    pc,             \* position of the running command
    allow_buckets,  \* scan_s3_buckets: the allowlist parameter
    bucket_list,    \* scan_s3_buckets: the listed buckets
    idx,            \* scan_s3_buckets: position of the for loop in bucket_list
    scanned_count,  \* scan_s3_buckets: buckets that passed the allowlist
    findings,       \* scan_s3_buckets: findings accumulated so far
    resp,           \* scan_s3_buckets: outcome of the latest configuration read
    get_calls,      \* provider: the buckets get_public_access_block was called for
    report,         \* the report returned by scan_s3_buckets / remediate
    fail_on,        \* scanner main: --fail-on
    out_file,       \* the JSON document written by write_json
    main_result,    \* what main returned
    in_file,        \* remediate main: the file named by --input
    approve,        \* remediate: the approve flag
    findings_report,\* remediate: the input scan report
    targets,        \* remediate: the CRITICAL findings of the input
    t_idx,          \* remediate: position of the for loop in targets
    action,         \* remediate: the action of the current iteration
    actions,        \* remediate: actions appended so far
    pab,            \* provider: public access block configuration per bucket
    put_calls,      \* provider: put_public_access_block calls received, and how each ended
    runs,           \* remediate: the report and the provider state each finished run left
    api_key,        \* lambda_handler: GOOGLE_API_KEY of the environment
    buckets,        \* lambda_handler: the listed buckets
    b_idx,          \* lambda_handler: position of the for loop in buckets
    scan_results,   \* lambda_handler: the result per bucket
    ai_outcome,     \* lambda_handler: how the summary step ended
    ai_analysis,    \* lambda_handler: the summary text
    lam_result      \* lambda_handler: the returned response

scan_vars == <<allow_buckets, bucket_list, idx, scanned_count, findings, resp, get_calls, fail_on>>
rem_vars == <<in_file, approve, findings_report, targets, t_idx, action, actions, pab, put_calls, runs>>
lam_vars == <<api_key, buckets, b_idx, scan_results, ai_outcome, ai_analysis, lam_result>>
vars == <<pc, report, out_file, main_result, scan_vars, rem_vars, lam_vars>>

----------------------------------------------------------------------------
(* Bounds of the model *)

MaxBuckets == 3      \* longest bucket listing
MaxTokens == 2       \* most comma-separated pieces of --allow-buckets
MaxFindings == 3     \* longest findings list of an input scan report
MaxRuns == 2         \* runs of remediate over the same scan report
MaxRerunFindings == 2 \* longest findings list of a scan report remediated repeatedly

----------------------------------------------------------------------------
(* Python values *)

EmptyDict == [k \in {} |-> TRUE]
None == [none |-> TRUE]

Get(d, k, default) == IF k \in DOMAIN d THEN d[k] ELSE default

RECURSIVE SelectIdx(_, _, _)
\* the indices i of s, from i upwards, with keep[i]
SelectIdx(s, keep, i) ==
    IF i > Len(s) THEN <<>>
    ELSE (IF keep[i] THEN <<s[i]>> ELSE <<>>) \o SelectIdx(s, keep, i + 1)

\* sequences over S without repetition, of length at most n
InjSeqs(S, n) ==
    UNION {{s \in [1..k -> S] : \A i, j \in 1..k : i # j => s[i] # s[j]} : k \in 0..n}

BucketNames == {"b1", "b2", "b3"}

FlagNames == {"BlockPublicAcls", "IgnorePublicAcls", "BlockPublicPolicy", "RestrictPublicBuckets"}

\* a PublicAccessBlockConfiguration: each flag true, false or missing
Configs == UNION {[D -> BOOLEAN] : D \in SUBSET FlagNames}

----------------------------------------------------------------------------
(* src/scanner.py *)

SEVERITY_ORDER == [NONE |-> 0, LOW |-> 1, MEDIUM |-> 2, HIGH |-> 3, CRITICAL |-> 4]

FailOnChoices == {"NONE", "LOW", "MEDIUM", "HIGH", "CRITICAL"}

\* a piece of --allow-buckets between two commas: its text, and whether
\* blanks surround it
CsvPieces ==
    { [text |-> "b1", pad |-> FALSE],
      [text |-> "b2", pad |-> TRUE],
      [text |-> "b3", pad |-> FALSE],
      [text |-> "", pad |-> FALSE],
      [text |-> "", pad |-> TRUE] }

\* the values of --allow-buckets: None (the default), or a string as the
\* sequence of its pieces ("" is the one piece without text and blanks)
CsvValues ==
    {[isNone |-> TRUE, pieces |-> <<>>]}
        \cup {[isNone |-> FALSE, pieces |-> p] :
                p \in UNION {[1..k -> CsvPieces] : k \in 1..MaxTokens}}

\* x.strip()
Strip(piece) == piece.text

\* None, or the list of the stripped pieces that are not empty (as the set of
\* its members: only membership is used)
parse_csv_list(value) ==
    IF value.isNone \/ value.pieces = <<[text |-> "", pad |-> FALSE]>>
    THEN [isNone |-> TRUE, items |-> {}]
    ELSE LET items == {Strip(value.pieces[i]) : i \in DOMAIN value.pieces} \ {""} IN
         IF items = {} THEN [isNone |-> TRUE, items |-> {}]
         ELSE [isNone |-> FALSE, items |-> items]

\* allow_buckets as main passes it: None, or a list of names
AllowArgs == {parse_csv_list(v) : v \in CsvValues}

\* a filter that lets every bucket pass
should_scan_bucket_Always(bucket_name, allow) == TRUE

should_scan_bucket(bucket_name, allow) ==
    IF allow.isNone \/ allow.items = {} THEN TRUE
    ELSE bucket_name \in allow.items

\* what s3.list_buckets() does: a response with or without "Buckets", or an exception
ListOutcomes ==
    {[kind |-> "return", resp |-> [Buckets |-> [i \in DOMAIN s |-> [Name |-> s[i]]]]] :
        s \in InjSeqs(BucketNames, MaxBuckets)}
        \cup {[kind |-> "return", resp |-> EmptyDict]}
        \cup {[kind |-> "Exception", msg |-> "list_buckets failed"]}

\* the error envelopes a ClientError can carry in e.response
ErrorResponses ==
    { [Error |-> [Code |-> "NoSuchPublicAccessBlockConfiguration", Message |-> "not found"]],
      [Error |-> [Code |-> "AccessDenied", Message |-> "denied"]],
      [Error |-> [Message |-> "no code"]],
      EmptyDict }

\* what s3.get_public_access_block(Bucket=...) does
S3GetOutcomes ==
    {[kind |-> "return", resp |-> [PublicAccessBlockConfiguration |-> c]] : c \in Configs}
        \cup {[kind |-> "return", resp |-> EmptyDict]}
        \cup {[kind |-> "ClientError", response |-> r] : r \in ErrorResponses}
        \cup {[kind |-> "Exception", msg |-> "timed out"]}

\* resp["PublicAccessBlockConfiguration"]; a missing key raises KeyError
get_public_access_block_config(o) ==
    IF o.kind = "return"
    THEN IF "PublicAccessBlockConfiguration" \in DOMAIN o.resp
         THEN [kind |-> "value", config |-> o.resp["PublicAccessBlockConfiguration"]]
         ELSE [kind |-> "Exception", msg |-> "'PublicAccessBlockConfiguration'"]
    ELSE o

\* config.get(flag) is not False: a missing flag passes
IsTrue_MissingPasses(config, flag) == Get(config, flag, TRUE) = TRUE

\* config.get(flag) is True
IsTrue(config, flag) == Get(config, flag, FALSE) = TRUE

evaluate_public_access_block(config) ==
    /\ IsTrue(config, "BlockPublicAcls")
    /\ IsTrue(config, "IgnorePublicAcls")
    /\ IsTrue(config, "BlockPublicPolicy")
    /\ IsTrue(config, "RestrictPublicBuckets")

\* the body of the try: the findings appended when the read returned config
TryBody(bucket_name, config) ==
    IF ~evaluate_public_access_block(config)
    THEN <<[bucket |-> bucket_name,
            issue |-> "Public access not fully blocked",
            severity |-> "CRITICAL"]>>
    ELSE <<>>

\* except ClientError as e
ExceptClientError(bucket_name, response) ==
    LET code == Get(Get(response, "Error", EmptyDict), "Code", "Unknown") IN
    IF code = "NoSuchPublicAccessBlockConfiguration"
    THEN <<[bucket |-> bucket_name,
            issue |-> "No public access block configured",
            severity |-> "CRITICAL"]>>
    ELSE <<[bucket |-> bucket_name,
            issue |-> "Could not scan bucket (ClientError: " \o code \o ")",
            severity |-> "HIGH",
            details |-> Get(response, "Error", EmptyDict)]>>

\* a handler that rates a failed read CRITICAL
ExceptException_Critical(bucket_name, msg) ==
    <<[bucket |-> bucket_name,
       issue |-> "Could not scan bucket (Exception)",
       severity |-> "CRITICAL",
       details |-> [text |-> msg]]>>

\* except Exception as e; str(e) is the dict [text |-> ...]
ExceptException(bucket_name, msg) ==
    <<[bucket |-> bucket_name,
       issue |-> "Could not scan bucket (Exception)",
       severity |-> "HIGH",
       details |-> [text |-> msg]]>>

\* a try statement without the handler for Exception
TryStatement_ExceptionEscapes(bucket_name, r) ==
    CASE r.kind = "value" ->
            [append |-> TryBody(bucket_name, r.config), raised |-> FALSE]
      [] r.kind = "ClientError" ->
            [append |-> ExceptClientError(bucket_name, r.response), raised |-> FALSE]
      [] r.kind = "Exception" ->
            [append |-> <<>>, raised |-> TRUE]

\* one pass of the try statement of the loop: the findings it appends, and
\* whether an exception leaves the statement
TryStatement(bucket_name, r) ==
    CASE r.kind = "value" ->
            [append |-> TryBody(bucket_name, r.config), raised |-> FALSE]
      [] r.kind = "ClientError" ->
            [append |-> ExceptClientError(bucket_name, r.response), raised |-> FALSE]
      [] r.kind = "Exception" ->
            [append |-> ExceptException(bucket_name, r.msg), raised |-> FALSE]

RECURSIVE CountSeverity(_, _)
\* sum(1 for f in findings if f.get("severity") == sev)
CountSeverity(fs, sev) ==
    IF fs = <<>> THEN 0
    ELSE (IF Get(Head(fs), "severity", "<None>") = sev THEN 1 ELSE 0)
            + CountSeverity(Tail(fs), sev)

\* a summary whose high count is taken from the CRITICAL findings
ScanReport_HighCountsCritical(count, fs) ==
    [service |-> "s3",
     scanner |-> "aws-security-guard",
     scanned_buckets |-> count,
     findings |-> fs,
     summary |-> [total_findings |-> Len(fs),
                  critical |-> CountSeverity(fs, "CRITICAL"),
                  high |-> CountSeverity(fs, "CRITICAL"),
                  medium |-> CountSeverity(fs, "MEDIUM"),
                  low |-> CountSeverity(fs, "LOW")]]

\* a report whose findings are sorted, the CRITICAL ones first
ScanReport_SortedBySeverity(count, fs) ==
    LET IsCritical(f) == f.severity = "CRITICAL"
        IsOther(f) == f.severity # "CRITICAL"
        sorted == SelectSeq(fs, IsCritical) \o SelectSeq(fs, IsOther)
    IN  [service |-> "s3",
         scanner |-> "aws-security-guard",
         scanned_buckets |-> count,
         findings |-> sorted,
         summary |-> [total_findings |-> Len(fs),
                      critical |-> CountSeverity(fs, "CRITICAL"),
                      high |-> CountSeverity(fs, "HIGH"),
                      medium |-> CountSeverity(fs, "MEDIUM"),
                      low |-> CountSeverity(fs, "LOW")]]

ScanReport(count, fs) ==
    [service |-> "s3",
     scanner |-> "aws-security-guard",
     scanned_buckets |-> count,
     findings |-> fs,
     summary |-> [total_findings |-> Len(fs),
                  critical |-> CountSeverity(fs, "CRITICAL"),
                  high |-> CountSeverity(fs, "HIGH"),
                  medium |-> CountSeverity(fs, "MEDIUM"),
                  low |-> CountSeverity(fs, "LOW")]]

Max(a, b) == IF a >= b THEN a ELSE b

RECURSIVE Worst(_, _)
\* the loop over report["findings"] that raises worst
Worst(fs, worst) ==
    IF fs = <<>> THEN worst
    ELSE Worst(Tail(fs),
               Max(worst, Get(SEVERITY_ORDER, Get(Head(fs), "severity", "NONE"), 0)))

\* worst > threshold instead of worst >= threshold
ExitCode_Strict(rep, failOn) ==
    LET threshold == SEVERITY_ORDER[failOn] IN
    IF threshold = 0 THEN 0
    ELSE IF Worst(rep.findings, 0) > threshold /\ rep.summary.total_findings > 0
         THEN 2
         ELSE 0

ExitCode(rep, failOn) ==
    LET threshold == SEVERITY_ORDER[failOn] IN
    IF threshold = 0 THEN 0
    ELSE IF Worst(rep.findings, 0) >= threshold /\ rep.summary.total_findings > 0
         THEN 2
         ELSE 0

----------------------------------------------------------------------------
(* The scan command *)

LamIdle ==
    /\ api_key = "<None>"
    /\ buckets = <<>>
    /\ b_idx = 1
    /\ scan_results = <<>>
    /\ ai_outcome = [kind |-> "unset"]
    /\ ai_analysis = "<None>"
    /\ lam_result = None

RemIdle ==
    /\ in_file = [kind |-> "missing"]
    /\ approve = FALSE
    /\ findings_report = EmptyDict
    /\ targets = <<>>
    /\ t_idx = 1
    /\ action = None
    /\ actions = <<>>
    /\ pab = [b \in BucketNames |-> None]
    /\ put_calls = <<>>
    /\ runs = <<>>

ScanInit ==
    /\ pc = "scan_start"
    /\ allow_buckets \in AllowArgs
    /\ bucket_list = <<>>
    /\ idx = 1
    /\ scanned_count = 0
    /\ findings = <<>>
    /\ resp = [kind |-> "unset"]
    /\ get_calls = <<>>
    /\ report = None
    /\ fail_on = "CRITICAL"
    /\ out_file = None
    /\ main_result = None
    /\ RemIdle
    /\ LamIdle

\* s3.list_buckets() returned
ListBuckets ==
    /\ pc = "scan_start"
    /\ \E o \in ListOutcomes :
         /\ o.kind = "return"
         /\ bucket_list' = Get(o.resp, "Buckets", <<>>)
    /\ pc' = "scan_loop"
    /\ UNCHANGED <<allow_buckets, idx, scanned_count, findings, resp, get_calls, fail_on>>
    /\ UNCHANGED <<report, out_file, main_result, rem_vars, lam_vars>>

\* s3.list_buckets() raised: nothing catches it, the command dies
ListBucketsRaises ==
    /\ pc = "scan_start"
    /\ \E o \in ListOutcomes :
         /\ o.kind # "return"
         /\ main_result' = [raised |-> o.msg]
    /\ pc' = "raised"
    /\ UNCHANGED <<scan_vars, report, out_file, rem_vars, lam_vars>>

\* an iteration for a bucket the allowlist excludes
SkipBucket ==
    /\ pc = "scan_loop"
    /\ idx <= Len(bucket_list)
    /\ ~should_scan_bucket(bucket_list[idx]["Name"], allow_buckets)
    /\ idx' = idx + 1
    /\ UNCHANGED <<allow_buckets, bucket_list, scanned_count, findings, resp, get_calls, fail_on>>
    /\ UNCHANGED <<pc, report, out_file, main_result, rem_vars, lam_vars>>

\* an iteration for a bucket that is scanned
ScanBucket ==
    /\ pc = "scan_loop"
    /\ idx <= Len(bucket_list)
    /\ should_scan_bucket(bucket_list[idx]["Name"], allow_buckets)
    /\ \E o \in S3GetOutcomes :
         LET bucket_name == bucket_list[idx]["Name"]
             r == get_public_access_block_config(o)
             t == TryStatement(bucket_name, r)
         IN  /\ resp' = r
             /\ get_calls' = Append(get_calls, bucket_name)
             /\ scanned_count' = scanned_count + 1
             /\ findings' = findings \o t.append
             /\ IF t.raised
                THEN /\ pc' = "raised"
                     /\ main_result' = [raised |-> "uncaught"]
                     /\ idx' = idx
                ELSE /\ pc' = pc
                     /\ main_result' = main_result
                     /\ idx' = idx + 1
    /\ UNCHANGED <<allow_buckets, bucket_list, fail_on>>
    /\ UNCHANGED <<report, out_file, rem_vars, lam_vars>>

\* the loop is over: build and return the report
ScanReturn ==
    /\ pc = "scan_loop"
    /\ idx > Len(bucket_list)
    /\ report' = ScanReport(scanned_count, findings)
    /\ resp' = [kind |-> "unset"]
    /\ pc' = "scan_returned"
    /\ UNCHANGED <<allow_buckets, bucket_list, idx, scanned_count, findings, get_calls, fail_on>>
    /\ UNCHANGED <<out_file, main_result, rem_vars, lam_vars>>

\* main: write the report, then the exit code for --fail-on
ScanMainExit ==
    /\ pc = "scan_returned"
    /\ out_file' = report
    /\ \E f \in FailOnChoices :
         /\ fail_on' = f
         /\ main_result' = [returned |-> ExitCode(report, f)]
    /\ pc' = "exited"
    /\ UNCHANGED <<allow_buckets, bucket_list, idx, scanned_count, findings, resp, get_calls>>
    /\ UNCHANGED <<report, rem_vars, lam_vars>>

ScanNext ==
    \/ ListBuckets
    \/ ListBucketsRaises
    \/ SkipBucket
    \/ ScanBucket
    \/ ScanReturn
    \/ ScanMainExit

ScanSpec == ScanInit /\ [][ScanNext]_vars

----------------------------------------------------------------------------
(* src/remediate.py *)

\* Python's None where the model holds a string
NoneStr == "<None>"

\* a requested configuration without RestrictPublicBuckets
DESIRED_ThreeFlags ==
    [BlockPublicAcls |-> TRUE,
     IgnorePublicAcls |-> TRUE,
     BlockPublicPolicy |-> TRUE]

DESIRED_PUBLIC_ACCESS_BLOCK ==
    [BlockPublicAcls |-> TRUE,
     IgnorePublicAcls |-> TRUE,
     BlockPublicPolicy |-> TRUE,
     RestrictPublicBuckets |-> TRUE]

Severities == {"NONE", "LOW", "MEDIUM", "HIGH", "CRITICAL"}

\* the findings an input scan report is drawn from: CRITICAL findings with a
\* bucket name, an empty one, a null one or none, findings of every other
\* severity, a finding without severity and a HIGH finding as the scanner
\* writes it
FindingInputs ==
    {[bucket |-> b, issue |-> "Public access not fully blocked", severity |-> "CRITICAL"] :
        b \in {"b1", "b2", "", NoneStr}}
        \cup {[issue |-> "No public access block configured", severity |-> "CRITICAL"]}
        \cup {[bucket |-> "b1", issue |-> "advisory", severity |-> s] :
                s \in Severities \ {"CRITICAL"}}
        \cup {[bucket |-> "b2", issue |-> "advisory"]}
        \cup {[bucket |-> "b2",
               issue |-> "Could not scan bucket (ClientError: AccessDenied)",
               severity |-> "HIGH",
               details |-> [Code |-> "AccessDenied", Message |-> "denied"]]}

InputReports ==
    {[findings |-> fs] : fs \in UNION {[1..k -> FindingInputs] : k \in 0..MaxFindings}}
        \cup {EmptyDict}

\* a JSON document that is a list, not an object
JsonArray == [json_array |-> TRUE]

\* an entry of "findings" that is not an object
NonObject == [nonobject |-> TRUE]

\* documents remediate cannot read: a list, and a findings list with an entry
\* that is no object after a CRITICAL finding
UnreadableDocuments ==
    { JsonArray,
      [findings |-> <<[bucket |-> "b1", issue |-> "Public access not fully blocked",
                       severity |-> "CRITICAL"],
                      NonObject>>] }

\* what --input can name: no file, a file that is not JSON, a JSON document
InFiles ==
    {[kind |-> "missing"], [kind |-> "invalid_json"]}
        \cup {[kind |-> "json", value |-> v] : v \in InputReports \cup UnreadableDocuments}

\* a read_json that takes a missing file for an empty report
read_json_MissingIsEmpty(f) ==
    CASE f.kind = "json" -> [kind |-> "value", value |-> f.value]
      [] f.kind = "missing" -> [kind |-> "value", value |-> EmptyDict]
      [] f.kind = "invalid_json" -> [kind |-> "Exception", msg |-> "JSONDecodeError"]

\* open(path) and json.load(f)
read_json(f) ==
    CASE f.kind = "json" -> [kind |-> "value", value |-> f.value]
      [] f.kind = "missing" -> [kind |-> "Exception", msg |-> "FileNotFoundError"]
      [] f.kind = "invalid_json" -> [kind |-> "Exception", msg |-> "JSONDecodeError"]

\* the provider's state at the start of a run: no bucket configured, or all
\* buckets fully protected
InitPabs ==
    {[b \in BucketNames |-> c] : c \in {None, DESIRED_PUBLIC_ACCESS_BLOCK}}

\* what s3.put_public_access_block(...) does
PutOutcomes ==
    { [kind |-> "return"],
      [kind |-> "ClientError",
       response |-> [Error |-> [Code |-> "AccessDenied", Message |-> "denied"]]],
      [kind |-> "ClientError", response |-> EmptyDict],
      [kind |-> "Exception", msg |-> "timed out"] }

\* a selection that also takes HIGH findings
IsTarget_HighToo(f) == Get(f, "severity", NoneStr) \in {"CRITICAL", "HIGH"}

\* [f for f in findings if f.get("severity") == "CRITICAL"]
IsTarget(f) == Get(f, "severity", NoneStr) = "CRITICAL"

SelectTargets(fs) == SelectIdx(fs, [i \in DOMAIN fs |-> IsTarget(fs[i])], 1)

\* findings_report.get("findings", []) and the targets of it; .get raises
\* AttributeError on a document or an entry that is no object
ReadTargets(rep) ==
    IF rep = JsonArray
    THEN [raised |-> TRUE, targets |-> <<>>]
    ELSE LET fs == Get(rep, "findings", <<>>) IN
         IF \E i \in DOMAIN fs : fs[i] = NonObject
         THEN [raised |-> TRUE, targets |-> <<>>]
         ELSE [raised |-> FALSE, targets |-> SelectTargets(fs)]

\* an action that starts PENDING in either mode
InitialStatus_AlwaysPending(approve_) == "PENDING"

\* every action starts as DRY_RUN, whatever approve is
InitialStatus_AlwaysDryRun(approve_) == "DRY_RUN"

InitialStatus(approve_) == IF ~approve_ THEN "DRY_RUN" ELSE "PENDING"

NewActionRecord(f, approve_) ==
    [bucket |-> Get(f, "bucket", NoneStr),
     issue |-> Get(f, "issue", NoneStr),
     action |-> "put_public_access_block",
     requested_config |-> DESIRED_PUBLIC_ACCESS_BLOCK,
     status |-> InitialStatus(approve_),
     error |-> None]

\* a gate that never holds the write back
DryRun_Never(approve_) == FALSE

\* if not approve
DryRun(approve_) == ~approve_

\* bucket is None: an empty name passes
NotBucket_OnlyNone(bucket) == bucket = NoneStr

\* not bucket
NotBucket(bucket) == bucket = NoneStr \/ bucket = ""

\* a write that is issued a second time when the first call raised
RecordCall_RetryOnFailure(calls, bucket, o) ==
    LET call == [Bucket |-> bucket,
                 PublicAccessBlockConfiguration |-> DESIRED_PUBLIC_ACCESS_BLOCK,
                 outcome |-> o.kind,
                 result |-> o]
    IN  IF o.kind = "return" THEN Append(calls, call) ELSE Append(Append(calls, call), call)

\* a write that sends the bucket of the first target every time
RecordCall_FirstBucket(calls, bucket, o) ==
    Append(calls, [Bucket |-> IF calls = <<>> THEN bucket ELSE calls[1].Bucket,
                   PublicAccessBlockConfiguration |-> DESIRED_PUBLIC_ACCESS_BLOCK,
                   outcome |-> o.kind,
                   result |-> o])

\* s3.put_public_access_block(Bucket=bucket, PublicAccessBlockConfiguration=
\* DESIRED_PUBLIC_ACCESS_BLOCK): the calls the provider has received, each
\* with what it did (o)
RecordCall(calls, bucket, o) ==
    Append(calls, [Bucket |-> bucket,
                   PublicAccessBlockConfiguration |-> DESIRED_PUBLIC_ACCESS_BLOCK,
                   outcome |-> o.kind,
                   result |-> o])

\* a handler for Exception that records no error
TryPut_ExceptionNoError(a, o) ==
    CASE o.kind = "return" ->
            [action |-> [a EXCEPT !.status = "APPLIED"], raised |-> FALSE]
      [] o.kind = "ClientError" ->
            LET code == Get(Get(o.response, "Error", EmptyDict), "Code", "Unknown") IN
            [action |-> [a EXCEPT
                           !.status = "FAILED",
                           !.error = [code |-> code,
                                      message |-> Get(Get(o.response, "Error", EmptyDict),
                                                      "Message", NoneStr)]],
             raised |-> FALSE]
      [] o.kind = "Exception" ->
            [action |-> [a EXCEPT !.status = "FAILED"], raised |-> FALSE]

\* a try statement without the handler for ClientError
TryPut_ClientErrorEscapes(a, o) ==
    CASE o.kind = "return" ->
            [action |-> [a EXCEPT !.status = "APPLIED"], raised |-> FALSE]
      [] o.kind = "ClientError" ->
            [action |-> a, raised |-> TRUE]
      [] o.kind = "Exception" ->
            [action |-> [a EXCEPT !.status = "FAILED", !.error = [text |-> o.msg]],
             raised |-> FALSE]

\* a handler for Exception that records the error and leaves the status
TryPut_LeavesPending(a, o) ==
    CASE o.kind = "return" ->
            [action |-> [a EXCEPT !.status = "APPLIED"], raised |-> FALSE]
      [] o.kind = "ClientError" ->
            LET code == Get(Get(o.response, "Error", EmptyDict), "Code", "Unknown") IN
            [action |-> [a EXCEPT
                           !.status = "FAILED",
                           !.error = [code |-> code,
                                      message |-> Get(Get(o.response, "Error", EmptyDict),
                                                      "Message", NoneStr)]],
             raised |-> FALSE]
      [] o.kind = "Exception" ->
            [action |-> [a EXCEPT !.error = [text |-> o.msg]], raised |-> FALSE]

\* the try statement around the write: the action it leaves, and whether an
\* exception leaves the statement
TryPut(a, o) ==
    CASE o.kind = "return" ->
            [action |-> [a EXCEPT !.status = "APPLIED"], raised |-> FALSE]
      [] o.kind = "ClientError" ->
            LET code == Get(Get(o.response, "Error", EmptyDict), "Code", "Unknown") IN
            [action |-> [a EXCEPT
                           !.status = "FAILED",
                           !.error = [code |-> code,
                                      message |-> Get(Get(o.response, "Error", EmptyDict),
                                                      "Message", NoneStr)]],
             raised |-> FALSE]
      [] o.kind = "Exception" ->
            [action |-> [a EXCEPT !.status = "FAILED", !.error = [text |-> o.msg]],
             raised |-> FALSE]

RECURSIVE CountStatus(_, _)
\* sum(1 for a in actions if a["status"] == st)
CountStatus(as, st) ==
    IF as = <<>> THEN 0
    ELSE (IF Head(as).status = st THEN 1 ELSE 0) + CountStatus(Tail(as), st)

RemediationReport(approve_, tgts, as) ==
    [service |-> "s3",
     remediator |-> "aws-security-guard",
     approve_mode |-> approve_,
     targets |-> Len(tgts),
     actions |-> as,
     summary |-> [applied |-> CountStatus(as, "APPLIED"),
                  failed |-> CountStatus(as, "FAILED"),
                  dry_run |-> CountStatus(as, "DRY_RUN"),
                  skipped |-> CountStatus(as, "SKIPPED")]]

\* an exit code that counts SKIPPED actions as failures
RemExitCode_SkippedFails(approve_, rep) ==
    IF approve_ /\ rep.summary.failed + rep.summary.skipped > 0 THEN 1 ELSE 0

RemExitCode(approve_, rep) ==
    IF approve_ /\ rep.summary.failed > 0 THEN 1 ELSE 0

----------------------------------------------------------------------------
(* The remediate command *)

ScanIdle ==
    /\ allow_buckets = [isNone |-> TRUE, items |-> {}]
    /\ bucket_list = <<>>
    /\ idx = 1
    /\ scanned_count = 0
    /\ findings = <<>>
    /\ resp = [kind |-> "unset"]
    /\ get_calls = <<>>
    /\ fail_on = "CRITICAL"

RemInit ==
    /\ pc = "rem_main"
    /\ approve \in BOOLEAN
    /\ in_file \in InFiles
    /\ findings_report = EmptyDict
    /\ pab \in InitPabs
    /\ targets = <<>>
    /\ t_idx = 1
    /\ action = None
    /\ actions = <<>>
    /\ put_calls = <<>>
    /\ runs = <<>>
    /\ report = None
    /\ out_file = None
    /\ main_result = None
    /\ ScanIdle
    /\ LamIdle

\* main: read_json(args.input); an exception ends the command
ReadJson ==
    /\ pc = "rem_main"
    /\ LET r == read_json(in_file) IN
       IF r.kind = "value"
       THEN /\ findings_report' = r.value
            /\ pc' = "rem_start"
            /\ main_result' = main_result
       ELSE /\ findings_report' = findings_report
            /\ pc' = "raised"
            /\ main_result' = [raised |-> r.msg]
    /\ UNCHANGED <<in_file, approve, targets, t_idx, action, actions, pab, put_calls, runs>>
    /\ UNCHANGED <<report, out_file, scan_vars, lam_vars>>

\* findings and targets of the input report
RemStart ==
    /\ pc = "rem_start"
    /\ LET r == ReadTargets(findings_report) IN
       IF r.raised
       THEN /\ targets' = targets
            /\ pc' = "raised"
            /\ main_result' = [raised |-> "AttributeError"]
       ELSE /\ targets' = r.targets
            /\ pc' = "rem_loop"
            /\ main_result' = main_result
    /\ UNCHANGED <<in_file, approve, findings_report, t_idx, action, actions, pab, put_calls, runs>>
    /\ UNCHANGED <<report, out_file, scan_vars, lam_vars>>

\* the head of an iteration: the action of the target
NewAction ==
    /\ pc = "rem_loop"
    /\ t_idx <= Len(targets)
    /\ action' = NewActionRecord(targets[t_idx], approve)
    /\ pc' = "rem_action"
    /\ UNCHANGED <<in_file, approve, findings_report, targets, t_idx, actions, pab, put_calls, runs>>
    /\ UNCHANGED <<report, out_file, main_result, scan_vars, lam_vars>>

\* if not bucket: SKIPPED, append, continue
SkipAction ==
    /\ pc = "rem_action"
    /\ NotBucket(action.bucket)
    /\ LET a == [action EXCEPT !.status = "SKIPPED",
                               !.error = [text |-> "Missing bucket name in finding."]]
       IN  /\ action' = a
           /\ actions' = Append(actions, a)
    /\ t_idx' = t_idx + 1
    /\ pc' = "rem_loop"
    /\ UNCHANGED <<in_file, approve, findings_report, targets, pab, put_calls, runs>>
    /\ UNCHANGED <<report, out_file, main_result, scan_vars, lam_vars>>

\* if not approve: append, continue
DryRunAction ==
    /\ pc = "rem_action"
    /\ ~NotBucket(action.bucket)
    /\ DryRun(approve)
    /\ actions' = Append(actions, action)
    /\ t_idx' = t_idx + 1
    /\ pc' = "rem_loop"
    /\ UNCHANGED <<in_file, approve, findings_report, targets, action, pab, put_calls, runs>>
    /\ UNCHANGED <<report, out_file, main_result, scan_vars, lam_vars>>

\* the write call and its handlers, then append
PutAction ==
    /\ pc = "rem_action"
    /\ ~NotBucket(action.bucket)
    /\ ~DryRun(approve)
    /\ \E o \in PutOutcomes :
         LET t == TryPut(action, o) IN
         /\ put_calls' = RecordCall(put_calls, action.bucket, o)
         /\ pab' = IF o.kind = "return"
                   THEN [pab EXCEPT ![action.bucket] = DESIRED_PUBLIC_ACCESS_BLOCK]
                   ELSE pab
         /\ action' = t.action
         /\ IF t.raised
            THEN /\ pc' = "raised"
                 /\ main_result' = [raised |-> "uncaught"]
                 /\ UNCHANGED <<actions, t_idx>>
            ELSE /\ actions' = Append(actions, t.action)
                 /\ t_idx' = t_idx + 1
                 /\ pc' = "rem_loop"
                 /\ main_result' = main_result
    /\ UNCHANGED <<in_file, approve, findings_report, targets, runs>>
    /\ UNCHANGED <<report, out_file, scan_vars, lam_vars>>

\* the loop is over: return the report
RemReturn ==
    /\ pc = "rem_loop"
    /\ t_idx > Len(targets)
    /\ report' = RemediationReport(approve, targets, actions)
    /\ pc' = "rem_returned"
    /\ UNCHANGED <<rem_vars, out_file, main_result, scan_vars, lam_vars>>

\* main: write the report, then the exit code
RemMainExit ==
    /\ pc = "rem_returned"
    /\ out_file' = report
    /\ main_result' = [returned |-> RemExitCode(approve, report)]
    /\ runs' = Append(runs, [report |-> report, pab |-> pab])
    /\ pc' = "exited"
    /\ UNCHANGED <<in_file, approve, findings_report, targets, t_idx, action, actions>>
    /\ UNCHANGED <<pab, put_calls, report, scan_vars, lam_vars>>

RemNext ==
    \/ ReadJson
    \/ RemStart
    \/ NewAction
    \/ SkipAction
    \/ DryRunAction
    \/ PutAction
    \/ RemReturn
    \/ RemMainExit

RemSpec == RemInit /\ [][RemNext]_vars

----------------------------------------------------------------------------
(* The remediate command run again over the same scan report *)

\* runs over a scan report of at most MaxRerunFindings findings
RerunInit ==
    /\ RemInit
    /\ in_file.kind = "json"
    /\ in_file.value \in InputReports
    /\ Len(Get(in_file.value, "findings", <<>>)) <= MaxRerunFindings

\* the command is started again: same --input, same --approve, the provider
\* and the written file as the run before left them
Rerun ==
    /\ pc = "exited"
    /\ Len(runs) < MaxRuns
    /\ pc' = "rem_main"
    /\ findings_report' = EmptyDict
    /\ targets' = <<>>
    /\ t_idx' = 1
    /\ action' = None
    /\ actions' = <<>>
    /\ report' = None
    /\ main_result' = None
    /\ UNCHANGED <<in_file, approve, pab, put_calls, runs, out_file, scan_vars, lam_vars>>

RerunNext ==
    \/ RemNext
    \/ Rerun

RerunSpec == RerunInit /\ [][RerunNext]_vars

----------------------------------------------------------------------------
(* Properties of the remediate command (RemSpec) *)

\* the findings of the input report
InputFindings ==
    IF "findings" \in DOMAIN findings_report THEN findings_report["findings"] ELSE <<>>

\* the CRITICAL findings of a list, in order
CriticalFindings(fs) ==
    SelectSeq(fs, LAMBDA f : "severity" \in DOMAIN f /\ f["severity"] = "CRITICAL")

\* an action whose finding names a bucket
HasName(a) == a.bucket \notin {"", NoneStr}

RemReturned == pc \in {"rem_returned", "exited"}

\* C1: in a run with approve = FALSE no step issues a provider write call,
\* and every step leaves the protection flags of every bucket as they were.
C1_DryRunNoWrite ==
    [][~approve => (put_calls' = <<>> /\ pab' = pab)]_vars

\* a dry run that ended with two actions, one of them for a named bucket that
\* has no protection configured
C1_Witness ==
    /\ ~approve
    /\ pc = "exited"
    /\ Len(actions) >= 2
    /\ \E i \in DOMAIN actions :
         /\ actions[i].bucket \in BucketNames
         /\ pab[actions[i].bucket] = None

\* C2 as claimed: with approve = FALSE every action of the returned report is
\* DRY_RUN, also for CRITICAL findings that lack a bucket name.
C2_Original ==
    (RemReturned /\ ~approve) =>
        \A i \in DOMAIN report.actions : report.actions[i].status = "DRY_RUN"

\* C2 amended: with approve = FALSE every action of the returned report is
\* DRY_RUN when its finding names a bucket and SKIPPED when it does not.
C2_DryRunStatus ==
    (RemReturned /\ ~approve) =>
        \A i \in DOMAIN report.actions :
            report.actions[i].status =
                (IF HasName(report.actions[i]) THEN "DRY_RUN" ELSE "SKIPPED")

\* a dry run whose report has a DRY_RUN action and a SKIPPED one
C2_Witness ==
    /\ RemReturned
    /\ ~approve
    /\ \E i, j \in DOMAIN report.actions :
         /\ report.actions[i].status = "DRY_RUN"
         /\ report.actions[j].status = "SKIPPED"

\* C3: in either mode the actions are, in order, the CRITICAL findings of the
\* input (same bucket and issue), a write call only ever names the bucket of a
\* CRITICAL finding, and the returned report has targets = len(actions) = the
\* number of CRITICAL findings.
C3_OnlyCritical ==
    LET crit == CriticalFindings(InputFindings) IN
    /\ Len(actions) <= Len(crit)
    /\ \A i \in DOMAIN actions :
         /\ actions[i].bucket = Get(crit[i], "bucket", NoneStr)
         /\ actions[i].issue = Get(crit[i], "issue", NoneStr)
    /\ \A j \in DOMAIN put_calls :
         \E i \in DOMAIN crit :
             "bucket" \in DOMAIN crit[i] /\ crit[i]["bucket"] = put_calls[j].Bucket
    /\ RemReturned =>
         /\ report.targets = Len(crit)
         /\ Len(report.actions) = Len(crit)

\* an approve run over three findings of which one is CRITICAL and two are
\* not (one of these without severity): one action, one write
C3_Witness ==
    /\ pc = "exited"
    /\ approve
    /\ Len(InputFindings) = 3
    /\ \E i \in DOMAIN InputFindings : "severity" \notin DOMAIN InputFindings[i]
    /\ \E i \in DOMAIN InputFindings :
         "severity" \in DOMAIN InputFindings[i] /\ InputFindings[i]["severity"] = "HIGH"
    /\ Len(report.actions) = 1
    /\ Len(put_calls) = 1

\* C4: with approve = TRUE no failed write ends the run (a run ends with an
\* exception only before its first target, on reading the input); every named target
\* gets its own write call, and its action is APPLIED when that call returned
\* and FAILED when that call raised, whatever happened to the other targets;
\* the returned report has one action per CRITICAL finding.
C4_FailureIsolation ==
    approve =>
        LET named == SelectSeq(actions, HasName) IN
        /\ (pc = "raised") => (action = None /\ put_calls = <<>>)
        /\ Len(put_calls) = Len(named)
        /\ \A j \in DOMAIN named :
             /\ put_calls[j].Bucket = named[j].bucket
             /\ named[j].status =
                    (IF put_calls[j].outcome = "return" THEN "APPLIED" ELSE "FAILED")
        /\ RemReturned =>
             /\ report.actions = actions
             /\ Len(report.actions) = Len(CriticalFindings(InputFindings))

\* three targets, the write of the second fails with a provider error, the
\* first and the third are applied
C4_Witness ==
    /\ pc = "exited"
    /\ approve
    /\ Len(report.actions) = 3
    /\ Len(put_calls) = 3
    /\ put_calls[2].outcome = "ClientError"
    /\ report.actions[1].status = "APPLIED"
    /\ report.actions[2].status = "FAILED"
    /\ report.actions[3].status = "APPLIED"

\* C8: in every returned report the four summary counts add up to targets,
\* targets = len(actions), and no action is PENDING.
C8_RemSummary ==
    RemReturned =>
        /\ report.summary.applied + report.summary.failed
              + report.summary.dry_run + report.summary.skipped = report.targets
        /\ report.targets = Len(report.actions)
        /\ \A i \in DOMAIN report.actions : report.actions[i].status # "PENDING"

\* an approve run with an applied, a failed (by an exception that is no
\* provider error) and a skipped action
C8_Witness ==
    /\ RemReturned
    /\ approve
    /\ report.summary.applied = 1
    /\ report.summary.failed = 1
    /\ report.summary.skipped = 1
    /\ \E j \in DOMAIN put_calls : put_calls[j].outcome = "Exception"

----------------------------------------------------------------------------
(* Properties of the scan command (ScanSpec) *)

\* the bucket at position i of the listing passes the allowlist
Allowed(i) ==
    \/ allow_buckets.isNone
    \/ allow_buckets.items = {}
    \/ bucket_list[i]["Name"] \in allow_buckets.items

\* the position of the bucket whose configuration was read last (0: none)
LastRead ==
    IF \E j \in 1..(idx - 1) : Allowed(j)
    THEN CHOOSE j \in 1..(idx - 1) : Allowed(j) /\ \A k \in (j + 1)..(idx - 1) : ~Allowed(k)
    ELSE 0

\* the findings recorded for bucket b
FindingsOf(b) == SelectSeq(findings, LAMBDA f : f.bucket = b)

AllFourTrue(config) == \A flag \in FlagNames : flag \in DOMAIN config /\ config[flag]

\* the read ended with the provider's "no configuration exists" error
NoConfigurationExists(r) ==
    /\ r.kind = "ClientError"
    /\ "Error" \in DOMAIN r.response
    /\ "Code" \in DOMAIN r.response["Error"]
    /\ r.response["Error"]["Code"] = "NoSuchPublicAccessBlockConfiguration"

\* the read failed for another reason
ReadFailed(r) ==
    \/ r.kind = "Exception"
    \/ r.kind = "ClientError" /\ ~NoConfigurationExists(r)

\* the finding of section 4.1 for bucket b whose read ended as r
ExpectedFinding(b, r) ==
    IF r.kind = "value"
    THEN IF AllFourTrue(r.config) THEN <<>>
         ELSE <<[bucket |-> b, issue |-> "Public access not fully blocked",
                 severity |-> "CRITICAL"]>>
    ELSE IF NoConfigurationExists(r)
    THEN <<[bucket |-> b, issue |-> "No public access block configured",
            severity |-> "CRITICAL"]>>
    ELSE IF r.kind = "ClientError"
    THEN <<[bucket |-> b,
            issue |-> "Could not scan bucket (ClientError: "
                        \o (IF "Error" \in DOMAIN r.response
                               /\ "Code" \in DOMAIN r.response["Error"]
                            THEN r.response["Error"]["Code"] ELSE "Unknown")
                        \o ")",
            severity |-> "HIGH",
            details |-> (IF "Error" \in DOMAIN r.response
                         THEN r.response["Error"] ELSE EmptyDict)]>>
    ELSE <<[bucket |-> b, issue |-> "Could not scan bucket (Exception)",
            severity |-> "HIGH", details |-> [text |-> r.msg]]>>

ScanReturned == pc \in {"scan_returned", "exited"}

\* C5: no configuration read ends the scan (only a failed listing does, before
\* any read); the iteration of a bucket that passes the allowlist leaves the
\* findings of the earlier buckets as they are and adds what that bucket's own
\* read outcome calls for, then the loop goes on; the returned report counts
\* every listed bucket that passes the allowlist.
C5_ScanIsolation ==
    /\ [](pc = "raised" => resp.kind = "unset")
    /\ [][(pc = "scan_loop" /\ idx <= Len(bucket_list) /\ Allowed(idx)) =>
            /\ pc' = "scan_loop"
            /\ idx' = idx + 1
            /\ findings' = findings \o ExpectedFinding(bucket_list[idx]["Name"], resp')]_vars
    /\ [](ScanReturned =>
            /\ report.scanned_buckets = Cardinality({i \in DOMAIN bucket_list : Allowed(i)})
            /\ report.findings = findings)

\* three buckets: the read of the second failed, the first and the third have
\* their CRITICAL findings in the report
C5_Witness ==
    /\ pc = "exited"
    /\ Len(bucket_list) = 3
    /\ Len(report.findings) = 3
    /\ report.findings[1].severity = "CRITICAL"
    /\ report.findings[2].severity = "HIGH"
    /\ report.findings[3].severity = "CRITICAL"

\* C6: the bucket read last has no finding iff the read returned a
\* configuration with all four flags true; a configuration with a flag false
\* or missing gives exactly one CRITICAL finding "Public access not fully
\* blocked", and "no configuration exists" gives exactly one CRITICAL finding
\* "No public access block configured".
C6_Classification ==
    (resp.kind # "unset") =>
        /\ LastRead > 0
        /\ LET b == bucket_list[LastRead]["Name"]
               fs == FindingsOf(b)
           IN  /\ (fs = <<>>) <=> (resp.kind = "value" /\ AllFourTrue(resp.config))
               /\ (resp.kind = "value" /\ ~AllFourTrue(resp.config)) =>
                    fs = <<[bucket |-> b, issue |-> "Public access not fully blocked",
                            severity |-> "CRITICAL"]>>
               /\ NoConfigurationExists(resp) =>
                    fs = <<[bucket |-> b, issue |-> "No public access block configured",
                            severity |-> "CRITICAL"]>>

\* a compliant bucket without finding, then a bucket whose configuration
\* lacks a flag (the others true) with its CRITICAL finding
C6_Witness ==
    /\ pc = "scan_loop"
    /\ scanned_count = 2
    /\ resp.kind = "value"
    /\ DOMAIN resp.config # FlagNames
    /\ \A flag \in DOMAIN resp.config : resp.config[flag]
    /\ Len(findings) = 1
    /\ findings[1].severity = "CRITICAL"
    /\ findings[1].bucket = bucket_list[LastRead]["Name"]

\* C7: after a read that failed for another reason than "no configuration
\* exists", the bucket has exactly one finding, of severity HIGH, whose
\* details are the error envelope of the provider error or the text of the
\* exception, and the loop goes on after that bucket.
C7_ReadFailure ==
    (resp.kind # "unset" /\ ReadFailed(resp)) =>
        /\ pc = "scan_loop"
        /\ LastRead > 0
        /\ LET b == bucket_list[LastRead]["Name"]
               fs == FindingsOf(b)
           IN  /\ Len(fs) = 1
               /\ fs[1].severity = "HIGH"
               /\ "details" \in DOMAIN fs[1]
               /\ fs[1].details =
                    (IF resp.kind = "ClientError"
                     THEN (IF "Error" \in DOMAIN resp.response
                           THEN resp.response["Error"] ELSE EmptyDict)
                     ELSE [text |-> resp.msg])

\* an AccessDenied provider error on the first of two buckets: a HIGH finding
\* with the code in its details, and the second bucket still to be read
C7_Witness ==
    /\ pc = "scan_loop"
    /\ idx = 2
    /\ Len(bucket_list) = 2
    /\ Allowed(2)
    /\ resp.kind = "ClientError"
    /\ Len(findings) = 1
    /\ findings[1].severity = "HIGH"
    /\ findings[1].details = [Code |-> "AccessDenied", Message |-> "denied"]

\* the number of findings of severity sev
NumWithSeverity(fs, sev) == Cardinality({i \in DOMAIN fs : fs[i].severity = sev})

\* C9: in every returned scan report total_findings = len(findings), each of
\* critical, high, medium and low is the number of findings of that severity,
\* and the four add up to total_findings.
C9_ScanSummary ==
    ScanReturned =>
        LET sm == report.summary
            fs == report.findings
        IN  /\ sm.total_findings = Len(fs)
            /\ sm.critical = NumWithSeverity(fs, "CRITICAL")
            /\ sm.high = NumWithSeverity(fs, "HIGH")
            /\ sm.medium = NumWithSeverity(fs, "MEDIUM")
            /\ sm.low = NumWithSeverity(fs, "LOW")
            /\ sm.critical + sm.high + sm.medium + sm.low = sm.total_findings

\* a report with two CRITICAL findings and a HIGH one
C9_Witness ==
    /\ ScanReturned
    /\ report.summary.critical = 2
    /\ report.summary.high = 1
    /\ Len(report.findings) = 3

\* NONE < LOW < MEDIUM < HIGH < CRITICAL
SeverityRank(sev) ==
    CHOOSE n \in 1..5 : <<"NONE", "LOW", "MEDIUM", "HIGH", "CRITICAL">>[n] = sev

\* C10: main returns 2 when --fail-on is not NONE and some finding has a
\* severity at or above it, and 0 otherwise.
C10_ScanExitCode ==
    (pc = "exited") =>
        main_result =
            [returned |->
                IF /\ fail_on # "NONE"
                   /\ \E i \in DOMAIN report.findings :
                        SeverityRank(report.findings[i].severity) >= SeverityRank(fail_on)
                THEN 2 ELSE 0]

\* only HIGH findings and --fail-on HIGH: exit code 2
C10_Witness ==
    /\ pc = "exited"
    /\ fail_on = "HIGH"
    /\ report.findings # <<>>
    /\ \A i \in DOMAIN report.findings : report.findings[i].severity = "HIGH"
    /\ main_result = [returned |-> 2]

----------------------------------------------------------------------------
(* Further properties of the remediate command (RemSpec) *)

\* C11: main returns 1 when --approve was given and the report has a FAILED
\* action, and 0 in every other case (dry runs, and approve runs whose actions
\* are APPLIED or SKIPPED).
C11_RemExitCode ==
    (pc = "exited") =>
        main_result =
            [returned |->
                IF /\ approve
                   /\ \E i \in DOMAIN report.actions : report.actions[i].status = "FAILED"
                THEN 1 ELSE 0]

\* an approve run with a FAILED and a SKIPPED action: exit code 1
C11_Witness ==
    /\ pc = "exited"
    /\ approve
    /\ \E i, j \in DOMAIN report.actions :
         /\ report.actions[i].status = "FAILED"
         /\ report.actions[j].status = "SKIPPED"
    /\ main_result = [returned |-> 1]

\* the finding has a bucket name (not missing, null or empty)
NamesBucket(f) == "bucket" \in DOMAIN f /\ f["bucket"] \notin {"", NoneStr}

\* C12: in either mode the action of a CRITICAL finding without bucket name
\* is SKIPPED with an error, no write call is ever made without a bucket
\* name, and the returned report still has one action per CRITICAL finding.
C12_SkippedWithoutName ==
    LET crit == CriticalFindings(InputFindings) IN
    /\ \A i \in DOMAIN actions :
         (i <= Len(crit) /\ ~NamesBucket(crit[i])) =>
            /\ actions[i].status = "SKIPPED"
            /\ actions[i].error # None
    /\ \A j \in DOMAIN put_calls : put_calls[j].Bucket \notin {"", NoneStr}
    /\ Len(put_calls) <= Cardinality({i \in DOMAIN crit : NamesBucket(crit[i])})
    /\ RemReturned => Len(report.actions) = Len(crit)

\* an approve run: a finding without "bucket" is SKIPPED, one with an empty
\* name is SKIPPED, and the target after them is written
C12_Witness ==
    /\ pc = "exited"
    /\ approve
    /\ Len(InputFindings) = 3
    /\ "bucket" \notin DOMAIN InputFindings[1]
    /\ Len(report.actions) = 3
    /\ report.actions[1].status = "SKIPPED"
    /\ report.actions[2].bucket = ""
    /\ report.actions[2].status = "SKIPPED"
    /\ report.actions[3].status = "APPLIED"
    /\ Len(put_calls) = 1

\* the input cannot be read as a scan report: there is no file, it is not
\* JSON, the document is no object or an entry of its findings is no object
Unreadable(f) ==
    \/ f.kind \in {"missing", "invalid_json"}
    \/ /\ f.kind = "json"
       /\ \/ f.value = JsonArray
          \/ /\ "findings" \in DOMAIN f.value
             /\ \E i \in DOMAIN f.value["findings"] : f.value["findings"][i] = NonObject

\* C14: with an input that cannot be read the command ends by the exception
\* before the loop: no action is created, no write call is issued, no report
\* is returned or written.
C14_UnreadableInputFatal ==
    Unreadable(in_file) =>
        /\ pc \in {"rem_main", "rem_start", "raised"}
        /\ action = None
        /\ actions = <<>>
        /\ put_calls = <<>>
        /\ report = None
        /\ out_file = None

\* an approve run ended by the entry that is no object, although a CRITICAL
\* finding with a bucket name comes before it
C14_Witness ==
    /\ pc = "raised"
    /\ approve
    /\ in_file.kind = "json"
    /\ in_file.value # JsonArray
    /\ Len(in_file.value["findings"]) = 2
    /\ in_file.value["findings"][2] = NonObject
    /\ put_calls = <<>>

----------------------------------------------------------------------------
(* Properties of repeated runs (RerunSpec) *)

AllFlagsTrue == [flag \in FlagNames |-> TRUE]

\* C13: after two approve runs over the same scan report in which every
\* write call returned, each action of a named target is APPLIED with error
\* null in both reports, and the provider state after the second run is the
\* state after the first, with all four flags true for every named target.
C13_Idempotent ==
    (approve /\ Len(runs) = 2 /\ \A j \in DOMAIN put_calls : put_calls[j].outcome = "return") =>
        /\ \A k \in 1..2 :
             \A i \in DOMAIN runs[k].report.actions :
                LET a == runs[k].report.actions[i] IN
                HasName(a) =>
                    /\ a.status = "APPLIED"
                    /\ a.error = None
                    /\ runs[k].pab[a.bucket] = AllFlagsTrue
        /\ runs[2].pab = runs[1].pab
        /\ Len(runs[2].report.actions) = Len(runs[1].report.actions)

\* two runs that each wrote b1 and b2 with success; b3, which no finding
\* names, shows that every bucket had all four flags set before the first run
C13_Witness ==
    /\ approve
    /\ Len(runs) = 2
    /\ Len(put_calls) = 4
    /\ \A j \in DOMAIN put_calls : put_calls[j].outcome = "return"
    /\ {put_calls[j].Bucket : j \in DOMAIN put_calls} = {"b1", "b2"}
    /\ pab["b3"] = AllFlagsTrue

----------------------------------------------------------------------------
(* Further properties of the scan command (ScanSpec) *)

\* with an allowlist given, name is in it; without one, every name passes
PassesAllowlist(name) == allow_buckets.isNone \/ name \in allow_buckets.items

\* the names of the listed buckets the loop has gone through
NamesDone == [i \in 1..(idx - 1) |-> bucket_list[i]["Name"]]

\* C15: the configuration reads issued are exactly those of the listed buckets
\* that are in the allowlist (all of them when no allowlist is given), in
\* order; scanned_count counts the same buckets; no finding names a bucket
\* outside the allowlist; the report's scanned_buckets is the number of listed
\* buckets in the allowlist.
C15_Allowlist ==
    /\ get_calls = SelectSeq(NamesDone, PassesAllowlist)
    /\ scanned_count = Len(get_calls)
    /\ \A i \in DOMAIN findings : PassesAllowlist(findings[i].bucket)
    /\ ScanReturned =>
         report.scanned_buckets =
            Cardinality({i \in DOMAIN bucket_list : PassesAllowlist(bucket_list[i]["Name"])})
    /\ (ScanReturned /\ allow_buckets.isNone) => Len(get_calls) = Len(bucket_list)

\* three listed buckets and an allowlist with the second one: one read, one
\* bucket counted, and its finding
C15_Witness ==
    /\ ScanReturned
    /\ ~allow_buckets.isNone
    /\ Len(bucket_list) = 3
    /\ allow_buckets.items = {bucket_list[2]["Name"]}
    /\ get_calls = <<bucket_list[2]["Name"]>>
    /\ report.scanned_buckets = 1
    /\ Len(report.findings) = 1

----------------------------------------------------------------------------
(* src/encryption-ai-scanner/s3_scanner.py *)

\* what s3_client.get_bucket_encryption(Bucket=...) does
EncryptionOutcomes ==
    {[kind |-> "return", enc |-> e] :
        e \in { EmptyDict,
                [ServerSideEncryptionConfiguration |-> [Rules |-> <<>>]],
                [ServerSideEncryptionConfiguration |-> [Rules |-> <<EmptyDict>>]],
                [ServerSideEncryptionConfiguration |->
                    [Rules |-> <<[ApplyServerSideEncryptionByDefault |->
                                    [SSEAlgorithm |-> "AES256"]]>>]],
                [ServerSideEncryptionConfiguration |->
                    [Rules |-> <<[ApplyServerSideEncryptionByDefault |->
                                    [SSEAlgorithm |-> "aws:kms"]]>>]] }}
        \cup {[kind |-> "NotFound"]}
        \cup {[kind |-> "Exception", type |-> "ClientError"]}

\* the try statement of the loop: encrypted and encryption_type
CheckEncryption(o) ==
    CASE o.kind = "return" ->
            LET rules == Get(Get(o.enc, "ServerSideEncryptionConfiguration", EmptyDict),
                             "Rules", <<>>)
                algo == IF rules # <<>>
                        THEN Get(Get(rules[1], "ApplyServerSideEncryptionByDefault", EmptyDict),
                                 "SSEAlgorithm", NoneStr)
                        ELSE NoneStr
            IN  IF rules # <<>> /\ algo \notin {NoneStr, ""}
                THEN [encrypted |-> TRUE, encryption_type |-> algo]
                ELSE [encrypted |-> FALSE, encryption_type |-> "None"]
      [] o.kind = "NotFound" ->
            [encrypted |-> FALSE, encryption_type |-> "None"]
      [] o.kind = "Exception" ->
            [encrypted |-> FALSE, encryption_type |-> "Error: " \o o.type]

\* os.environ.get("GOOGLE_API_KEY"): unset, empty or set
ApiKeys == {NoneStr, "", "key"}

\* what genai.Client(...) and client.models.generate_content(...) do
GenerateOutcomes ==
    { [kind |-> "return", text |-> "Enable default encryption."],
      [kind |-> "return", text |-> NoneStr],
      [kind |-> "Exception", msg |-> "quota exceeded"],
      [kind |-> "Exception", msg |-> "connection reset"] }

\* the outcomes the summary step can have with the key of the environment
SummaryOutcomes(key) ==
    IF key = NoneStr \/ key = "" THEN {[kind |-> "no_key"]} ELSE GenerateOutcomes

\* a summary step without the handler for Exception
AiAnalysis_ExceptionEscapes(o) ==
    CASE o.kind = "no_key" ->
            [text |-> "AI analysis skipped: GOOGLE_API_KEY not configured", raised |-> FALSE]
      [] o.kind = "return" -> [text |-> o.text, raised |-> FALSE]
      [] o.kind = "Exception" -> [text |-> NoneStr, raised |-> TRUE]

\* the summary step: ai_analysis, and whether an exception leaves it
AiAnalysis(o) ==
    CASE o.kind = "no_key" ->
            [text |-> "AI analysis skipped: GOOGLE_API_KEY not configured", raised |-> FALSE]
      [] o.kind = "return" -> [text |-> o.text, raised |-> FALSE]
      [] o.kind = "Exception" -> [text |-> "AI analysis failed: " \o o.msg, raised |-> FALSE]

RECURSIVE CountUnencrypted(_)
\* len([r for r in scan_results if not r["encrypted"]])
CountUnencrypted(rs) ==
    IF rs = <<>> THEN 0
    ELSE (IF ~Head(rs).encrypted THEN 1 ELSE 0) + CountUnencrypted(Tail(rs))

\* json.dumps(v): the JSON text, held as the document it encodes
JsonDumps(v) == [json |-> v]

LamResponse(bs, rs, ai) ==
    LET unencrypted_count == CountUnencrypted(rs) IN
    [statusCode |-> 200,
     body |-> JsonDumps([total_buckets |-> Len(bs),
                         unencrypted_buckets |-> unencrypted_count,
                         encrypted_buckets |-> Len(bs) - unencrypted_count,
                         scan_results |-> rs,
                         ai_analysis |-> ai,
                         alert |-> unencrypted_count > 0])]

----------------------------------------------------------------------------
(* The lambda handler *)

LamInit ==
    /\ pc = "lam_start"
    /\ api_key \in ApiKeys
    /\ buckets = <<>>
    /\ b_idx = 1
    /\ scan_results = <<>>
    /\ ai_outcome = [kind |-> "unset"]
    /\ ai_analysis = NoneStr
    /\ lam_result = None
    /\ report = None
    /\ out_file = None
    /\ main_result = None
    /\ ScanIdle
    /\ RemIdle

\* s3_client.list_buckets() returned
LamList ==
    /\ pc = "lam_start"
    /\ \E o \in ListOutcomes :
         /\ o.kind = "return"
         /\ buckets' = Get(o.resp, "Buckets", <<>>)
    /\ pc' = "lam_loop"
    /\ UNCHANGED <<api_key, b_idx, scan_results, ai_outcome, ai_analysis, lam_result>>
    /\ UNCHANGED <<report, out_file, main_result, scan_vars, rem_vars>>

\* s3_client.list_buckets() raised: the handler raises
LamListRaises ==
    /\ pc = "lam_start"
    /\ \E o \in ListOutcomes :
         /\ o.kind # "return"
         /\ main_result' = [raised |-> o.msg]
    /\ pc' = "raised"
    /\ UNCHANGED <<lam_vars, report, out_file, scan_vars, rem_vars>>

\* an iteration of the loop over the buckets
LamCheckBucket ==
    /\ pc = "lam_loop"
    /\ b_idx <= Len(buckets)
    /\ \E o \in EncryptionOutcomes :
         LET c == CheckEncryption(o) IN
         scan_results' = Append(scan_results,
                                [bucket_name |-> buckets[b_idx]["Name"],
                                 encrypted |-> c.encrypted,
                                 encryption_type |-> c.encryption_type])
    /\ b_idx' = b_idx + 1
    /\ UNCHANGED <<api_key, buckets, ai_outcome, ai_analysis, lam_result>>
    /\ UNCHANGED <<pc, report, out_file, main_result, scan_vars, rem_vars>>

\* the summary step
LamSummarize ==
    /\ pc = "lam_loop"
    /\ b_idx > Len(buckets)
    /\ \E o \in SummaryOutcomes(api_key) :
         LET a == AiAnalysis(o) IN
         /\ ai_outcome' = o
         /\ ai_analysis' = a.text
         /\ IF a.raised
            THEN /\ pc' = "raised"
                 /\ main_result' = [raised |-> o.msg]
            ELSE /\ pc' = "lam_summarized"
                 /\ main_result' = main_result
    /\ UNCHANGED <<api_key, buckets, b_idx, scan_results, lam_result>>
    /\ UNCHANGED <<report, out_file, scan_vars, rem_vars>>

\* the response
LamReturn ==
    /\ pc = "lam_summarized"
    /\ lam_result' = LamResponse(buckets, scan_results, ai_analysis)
    /\ pc' = "lam_returned"
    /\ UNCHANGED <<api_key, buckets, b_idx, scan_results, ai_outcome, ai_analysis>>
    /\ UNCHANGED <<report, out_file, main_result, scan_vars, rem_vars>>

LamNext ==
    \/ LamList
    \/ LamListRaises
    \/ LamCheckBucket
    \/ LamSummarize
    \/ LamReturn

LamSpec == LamInit /\ [][LamNext]_vars

----------------------------------------------------------------------------
(* Properties of the lambda handler (LamSpec) *)

\* the buckets of rs that are not encrypted
Unencrypted(rs) == {i \in DOMAIN rs : ~rs[i].encrypted}

SummaryFailed == ai_outcome.kind \in {"no_key", "Exception"}

\* C16: a summary step that fails (no key, or an exception of the generation
\* call) does not end the handler and leaves a placeholder text; the status
\* code, the per-bucket results, the counts and the alert of the response are
\* what the per-bucket results alone determine, so they are the same as in a
\* run whose summary call succeeds.
C16_SummaryNonAuthoritative ==
    /\ (pc = "raised") => ai_outcome.kind = "unset"
    /\ SummaryFailed =>
         ai_analysis =
            (IF ai_outcome.kind = "no_key"
             THEN "AI analysis skipped: GOOGLE_API_KEY not configured"
             ELSE "AI analysis failed: " \o ai_outcome.msg)
    /\ (pc = "lam_returned") =>
         /\ Len(scan_results) = Len(buckets)
         /\ lam_result.statusCode = 200
         /\ lam_result.body =
              [json |->
                [total_buckets |-> Len(buckets),
                 unencrypted_buckets |-> Cardinality(Unencrypted(scan_results)),
                 encrypted_buckets |-> Len(buckets) - Cardinality(Unencrypted(scan_results)),
                 scan_results |-> scan_results,
                 ai_analysis |-> ai_analysis,
                 alert |-> Unencrypted(scan_results) # {}]]

\* a response after an exception of the generation call, over an encrypted
\* and an unencrypted bucket
C16_Witness ==
    /\ pc = "lam_returned"
    /\ ai_outcome.kind = "Exception"
    /\ Len(scan_results) = 2
    /\ scan_results[1].encrypted
    /\ ~scan_results[2].encrypted
    /\ lam_result.body["json"].alert

----------------------------------------------------------------------------
(* The status of an action (RemSpec) *)

\* the step creates the action of the next target
Creates == pc = "rem_loop" /\ pc' = "rem_action"

\* the step handles the action of the current target
Handles == pc = "rem_action"

Terminal == {"APPLIED", "FAILED", "SKIPPED"}

\* the actions already in the list are left as they are
AppendedKept == \A i \in DOMAIN actions : i \in DOMAIN actions' /\ actions'[i] = actions[i]

\* C17 as stated: every action is created DRY_RUN, the write call is issued
\* from PENDING, and the only transitions are DRY_RUN -> PENDING,
\* PENDING -> APPLIED, PENDING -> FAILED and DRY_RUN -> SKIPPED.
C17_Original ==
    [][ /\ Creates => action'.status = "DRY_RUN"
        /\ Handles =>
             \/ action'.status = action.status
             \/ <<action.status, action'.status>> \in
                  { <<"DRY_RUN", "PENDING">>, <<"PENDING", "APPLIED">>,
                    <<"PENDING", "FAILED">>, <<"DRY_RUN", "SKIPPED">> }
        /\ Len(put_calls') # Len(put_calls) => action.status = "PENDING"
        /\ AppendedKept ]_vars

\* C17 (amended): an action is created DRY_RUN without approve and PENDING with
\* approve; the single write call is issued from PENDING and leaves the action
\* APPLIED or FAILED; the only transitions are PENDING -> APPLIED,
\* PENDING -> FAILED, DRY_RUN -> SKIPPED and PENDING -> SKIPPED; an action
\* that is APPLIED, FAILED or SKIPPED, and every action in the list, never
\* changes.
C17_StatusMachine ==
    [][ /\ Creates => action'.status = (IF approve THEN "PENDING" ELSE "DRY_RUN")
        /\ Handles =>
             /\ \/ action'.status = action.status
                \/ <<action.status, action'.status>> \in
                     { <<"PENDING", "APPLIED">>, <<"PENDING", "FAILED">>,
                       <<"DRY_RUN", "SKIPPED">>, <<"PENDING", "SKIPPED">> }
             /\ action.status \notin Terminal
             /\ action'.status # "PENDING"
        /\ Len(put_calls') # Len(put_calls) =>
             /\ Handles
             /\ action.status = "PENDING"
             /\ Len(put_calls') = Len(put_calls) + 1
             /\ action'.status \in {"APPLIED", "FAILED"}
        /\ ~Creates /\ ~Handles => action' = action
        /\ AppendedKept ]_vars

\* an action created PENDING under approve, before its write call, after an
\* earlier action of the run was skipped from PENDING
C17_Witness ==
    /\ approve
    /\ pc = "rem_action"
    /\ action.status = "PENDING"
    /\ ~NotBucket(action.bucket)
    /\ Len(actions) = 1
    /\ actions[1].status = "SKIPPED"

----------------------------------------------------------------------------
(* The error of an action (RemSpec) *)

\* the actions whose finding names a bucket, in order
NamedActions == SelectSeq(actions, HasName)

\* the error envelope of a provider error
Envelope(o) == IF "Error" \in DOMAIN o.response THEN o.response["Error"] ELSE EmptyDict

\* C18: with approve = TRUE, the action of a write that failed with a provider
\* error is FAILED with error = {code, message} of the error envelope
\* ("Unknown" and null where the envelope has none), the action of a write
\* that failed otherwise is FAILED with the text of the failure as error;
\* in every returned report the error is non-null exactly for the FAILED and
\* SKIPPED actions.
C18_ErrorByFailureKind ==
    /\ approve =>
         /\ Len(put_calls) = Len(NamedActions)
         /\ \A j \in DOMAIN NamedActions :
              LET o == put_calls[j].result
                  a == NamedActions[j]
              IN  /\ o.kind = "ClientError" =>
                        /\ a.status = "FAILED"
                        /\ a.error =
                             [code |-> IF "Code" \in DOMAIN Envelope(o)
                                       THEN Envelope(o)["Code"] ELSE "Unknown",
                              message |-> IF "Message" \in DOMAIN Envelope(o)
                                          THEN Envelope(o)["Message"] ELSE NoneStr]
                  /\ o.kind = "Exception" =>
                        /\ a.status = "FAILED"
                        /\ a.error = [text |-> o.msg]
    /\ RemReturned =>
         \A i \in DOMAIN report.actions :
            (report.actions[i].error # None)
               <=> (report.actions[i].status \in {"FAILED", "SKIPPED"})

\* a returned approve report with a write failed by a provider error, a write
\* failed by another exception and a skipped action
C18_Witness ==
    /\ RemReturned
    /\ approve
    /\ \E j \in DOMAIN put_calls :
         put_calls[j].outcome = "ClientError" /\ put_calls[j].result.response # EmptyDict
    /\ \E j \in DOMAIN put_calls : put_calls[j].outcome = "Exception"
    /\ \E i \in DOMAIN report.actions : report.actions[i].status = "SKIPPED"

----------------------------------------------------------------------------
(* The write calls of a run (RemSpec) *)

\* the CRITICAL findings of the input the loop has gone through, in order
TargetsDone ==
    LET crit == CriticalFindings(InputFindings) IN
    [i \in 1..Len(actions) |-> crit[i]]

\* C20: with approve = TRUE the write calls issued so far are one per target
\* with a bucket name the loop has gone through, no more and no fewer, each
\* with that target's bucket and all four flags true; no step issues more than
\* one call; in the returned report the number of calls is
\* summary.applied + summary.failed.
C20_OneWritePerTarget ==
    approve =>
        /\ Len(actions) <= Len(CriticalFindings(InputFindings))
        /\ LET named == SelectSeq(TargetsDone, NamesBucket) IN
           /\ Len(put_calls) = Len(named)
           /\ \A j \in DOMAIN put_calls :
                /\ put_calls[j].Bucket = named[j]["bucket"]
                /\ put_calls[j].PublicAccessBlockConfiguration = AllFlagsTrue
        /\ RemReturned =>
             /\ Len(actions) = Len(CriticalFindings(InputFindings))
             /\ Len(put_calls) = report.summary.applied + report.summary.failed

\* a returned approve run over three CRITICAL findings: two calls for the same
\* bucket named by two findings, the first of them failed, and no call for
\* the finding without a name
C20_Witness ==
    /\ RemReturned
    /\ approve
    /\ Len(report.actions) = 3
    /\ Len(put_calls) = 2
    /\ put_calls[1].Bucket = put_calls[2].Bucket
    /\ put_calls[1].outcome # "return"
    /\ put_calls[2].outcome = "return"
    /\ report.summary.skipped = 1

----------------------------------------------------------------------------
(* The three programs: a run is a run of one of them *)

Init == ScanInit \/ RemInit \/ LamInit

Next == ScanNext \/ RemNext \/ LamNext

Spec == Init /\ [][Next]_vars

----------------------------------------------------------------------------
(* The order of findings, actions and write calls (Spec) *)

\* the position of the bucket called name in the listing
ListingPosition(name) == CHOOSE i \in DOMAIN bucket_list : bucket_list[i]["Name"] = name

\* the findings fs follow the order of the listing
InListingOrder(fs) ==
    /\ \A i \in DOMAIN fs : \E k \in DOMAIN bucket_list : bucket_list[k]["Name"] = fs[i].bucket
    /\ \A i, j \in DOMAIN fs :
         i < j => ListingPosition(fs[i].bucket) < ListingPosition(fs[j].bucket)

\* C19: the findings of a scan, and of the report it returns, are in the
\* order in which the listing returned their buckets, whatever their
\* severities; the actions of a remediation, and of the report it returns,
\* are the CRITICAL findings of the input in their order, and the write
\* calls are those of the actions with a bucket name in that same order.
C19_OrderPreserved ==
    /\ InListingOrder(findings)
    /\ (pc = "scan_returned") => report.findings = findings
    /\ LET crit == CriticalFindings(InputFindings) IN
       /\ Len(actions) <= Len(crit)
       /\ \A i \in DOMAIN actions :
            /\ actions[i].bucket =
                 (IF "bucket" \in DOMAIN crit[i] THEN crit[i]["bucket"] ELSE NoneStr)
            /\ actions[i].issue =
                 (IF "issue" \in DOMAIN crit[i] THEN crit[i]["issue"] ELSE NoneStr)
    /\ LET named == SelectSeq(actions, HasName) IN
       \A j \in DOMAIN put_calls :
          j \in DOMAIN named /\ put_calls[j].Bucket = named[j].bucket
    /\ (pc = "rem_returned") => report.actions = actions

\* a returned scan report whose findings are HIGH, CRITICAL, HIGH, in the
\* order of the listing
C19_Witness ==
    /\ pc = "scan_returned"
    /\ Len(report.findings) = 3
    /\ report.findings[1].severity = "HIGH"
    /\ report.findings[2].severity = "CRITICAL"
    /\ report.findings[3].severity = "HIGH"
    /\ \A i \in 1..3 : report.findings[i].bucket = bucket_list[i]["Name"]

====
